---- MODULE Spec2Model ----
(***************************************************************************)
(* Model of slack_sender/notifier.py: the JupyterSlackNotifier singleton,  *)
(* the notify_slack cell magic it registers, and the three notification    *)
(* senders (_send_start_notification, _send_success_notification,          *)
(* _send_error_notification).                                              *)
(*                                                                         *)
(* Python strings are modelled as run-length encoded texts: a sequence of  *)
(* runs [c, n], the symbol c repeated n times, no two neighbouring runs    *)
(* carrying the same symbol.  A symbol is one character of user data       *)
(* ("a", "b", ".", the newline) or one fixed newline-free phrase of a      *)
(* message template.  The encoding keeps the source's limits (2000, 1000,  *)
(* 500 characters) at their real values.                                   *)
(***************************************************************************)
EXTENDS Integers, Sequences, FiniteSets, TLC

VARIABLES
  instance,         \* JupyterSlackNotifier._instance
  lastConstructed,  \* history: the notifier constructed last
  pc,               \* where the notify_slack call stands
  notifier,         \* notify_slack's local notifier
  activeAtStart,    \* history: lastConstructed when notify_slack was entered
  replaced,         \* history: a construction has replaced another notifier
  cell,             \* the cell handed to notify_slack, with what running it does
  start_time,       \* notify_slack's local start_time
  stdout,           \* sys.stdout: "orig", "captured" or "stale"
  old_stdout,       \* notify_slack's local old_stdout
  captured_output,  \* the text in notify_slack's StringIO
  console,          \* history: what this call wrote to the original stdout
  posts,            \* history: the sender calls of this call, in order
  unit,             \* history: how run_cell ended
  ex,               \* the exception notify_slack's except clause handles
  raised,           \* the exception that left notify_slack
  returned,         \* the value notify_slack returned
  prev,             \* history: the previous notify_slack call, if all its POSTs went through
  call              \* history: the arguments of a direct sender call

vars == <<instance, lastConstructed, pc, notifier, activeAtStart, replaced, cell,
          start_time, stdout, old_stdout, captured_output, console, posts,
          unit, ex, raised, returned, prev, call>>

\* ------------------------------------------------------------------ bounds
\* largest distance of a generated text length from a truncation limit
MaxDelta == 1
\* longest run of "b" characters that follows the "a" characters of a text
MaxTail == 1
\* last value of the clock (seconds)
MaxTime == 1

\* ------------------------------------------------------- program constants
SUCCESS_OUTPUT_LIMIT == 2000
ERROR_OUTPUT_LIMIT == 1000
RESULT_LIMIT == 500

\* --------------------------------------------------------- python strings
Empty == <<>>

\* a string literal without newline
Lit(s) == <<[c |-> s, n |-> 1]>>

\* the character ch repeated k times
Rep(ch, k) == IF k = 0 THEN <<>> ELSE <<[c |-> ch, n |-> k]>>

NL == Lit("\n")

\* the code fence of the message templates, three backquotes
Fence == Lit("<3 backquotes>")

\* s + t
Cat(s, t) ==
  IF s = <<>> THEN t
  ELSE IF t = <<>> THEN s
  ELSE IF s[Len(s)].c = t[1].c
       THEN SubSeq(s, 1, Len(s) - 1)
              \o <<[c |-> t[1].c, n |-> s[Len(s)].n + t[1].n]>>
              \o Tail(t)
       ELSE s \o t

RECURSIVE StrLen(_)
\* len(s)
StrLen(s) == IF s = <<>> THEN 0 ELSE s[1].n + StrLen(Tail(s))

RECURSIVE Slice(_, _)
\* s[:k]
Slice(s, k) ==
  IF s = <<>> \/ k <= 0 THEN <<>>
  ELSE IF s[1].n >= k THEN <<[c |-> s[1].c, n |-> k]>>
       ELSE <<s[1]>> \o Slice(Tail(s), k - s[1].n)

RECURSIVE Join(_, _)
\* sep.join(parts)
Join(sep, parts) ==
  IF parts = <<>> THEN <<>>
  ELSE IF Len(parts) = 1 THEN parts[1]
       ELSE Cat(Cat(parts[1], sep), Join(sep, Tail(parts)))

\* start_time.strftime(DATE_FORMAT), for the clock values 0..9 seconds
strftime(t) == Lit("2024-01-01 00:00:0" \o ToString(t))

\* str(elapsed_time) of a datetime.timedelta of d seconds, d in 0..9
timedelta_str(d) == Lit("0:00:0" \o ToString(d))

\* ------------------------------------------------------------- exceptions
NoExc == [type |-> "none", msg |-> ""]
ZeroDivisionError == [type |-> "ZeroDivisionError", msg |-> "division by zero"]
ValueError == [type |-> "ValueError", msg |-> "bad value"]
\* raised by requests.post when the webhook cannot be reached
ConnectionError == [type |-> "ConnectionError", msg |-> "connection refused"]
\* raised when the free name cell_id is evaluated and is bound nowhere
NameError == [type |-> "NameError", msg |-> "name 'cell_id' is not defined"]
\* a BaseException that is no Exception
KeyboardInterrupt == [type |-> "KeyboardInterrupt", msg |-> ""]

\* f'{exception}'
exc_str(e) == IF e.msg = "" THEN Empty ELSE Lit(e.msg)

\* traceback.format_exc() while e is the exception being handled (NoExc: none is)
format_exc(e) ==
  IF e = NoExc THEN Cat(Lit("NoneType: None"), NL)
  ELSE Cat(Join(NL, <<Lit("Traceback (most recent call last):"),
                      Lit(e.type \o ": " \o e.msg)>>), NL)

\* ------------------------------------------------------------ the senders
\* the mention line every sender appends last: if self.user_mentions: ...
\* (mention_lines_unspaced joins the tokens with nothing between them)
mention_lines_unspaced(self) ==
  IF self.user_mentions # <<>>
  THEN <<Join(Empty, [i \in 1..Len(self.user_mentions) |-> Lit(self.user_mentions[i])])>>
  ELSE <<>>
mention_lines(self) ==
  IF self.user_mentions # <<>>
  THEN <<Join(Lit(" "), [i \in 1..Len(self.user_mentions) |-> Lit(self.user_mentions[i])])>>
  ELSE <<>>

\* (try_post_unguarded: the POST without the try statement around it)
try_post_unguarded(post_ok) == IF post_ok THEN NoExc ELSE ConnectionError
\* try: requests.post(...) except Exception as e: print(warning)
\* the exception that leaves the try statement
try_post(post_ok) == NoExc

\* what one sender call did: the payload it built, where it posted it, whether
\* the POST went through, the warning it printed and the exception it raised
Attempt(kind, self, icon, contents, post_ok) ==
  [kind |-> kind,
   url |-> self.webhook_url,
   dump |-> [username |-> "Knock Knock",
             channel |-> self.channel,
             icon_emoji |-> icon,
             text |-> Join(NL, contents)],
   delivered |-> post_ok,
   warning |-> IF post_ok THEN Empty
               ELSE Lit("Warning: Failed to send " \o kind \o " notification: connection refused"),
   raised |-> try_post(post_ok)]

\* a sender call that an exception left before it built its payload
Aborted(kind, self, e) ==
  [kind |-> kind,
   url |-> self.webhook_url,
   dump |-> [username |-> "Knock Knock", channel |-> self.channel,
             icon_emoji |-> "", text |-> Empty],
   delivered |-> FALSE,
   warning |-> Empty,
   raised |-> e]

_send_start_notification(self, cell_id, t0, post_ok) ==
  LET contents == <<Lit("The cell is running."),
                    Cat(Lit("Cell: "), cell_id),
                    Cat(Lit("Starting date: "), strftime(t0))>>
                  \o mention_lines(self)
  IN Attempt("start", self, ":clapper:", contents, post_ok)

\* (success_preview_ge cuts an output of exactly 2000 characters too)
success_preview_ge(output) ==
  IF StrLen(output) >= SUCCESS_OUTPUT_LIMIT
  THEN Cat(Slice(output, SUCCESS_OUTPUT_LIMIT), Rep(".", 3))
  ELSE output
\* output[:2000] + "..." if len(output) > 2000 else output
success_preview(output) ==
  IF StrLen(output) > SUCCESS_OUTPUT_LIMIT
  THEN Cat(Slice(output, SUCCESS_OUTPUT_LIMIT), Rep(".", 3))
  ELSE output

\* the cell-output block of the success body, absent for an empty output
success_output_block(output) ==
  IF output # Empty
  THEN <<Cat(Cat(Cat(Cat(Cat(Cat(Cat(NL, Lit("Cell Output:")), NL), Fence), NL),
             success_preview(output)), NL), Fence)>>
  ELSE <<>>

\* raised by str() of a value that cannot be stringified
TypeError == [type |-> "TypeError", msg |-> "__str__ returned non-string"]

\* (stringify_unguarded: the same without the try statement)
stringify_unguarded(cell_result) ==
  IF cell_result.isNone THEN [lines |-> <<>>, raised |-> NoExc]
  ELSE IF ~cell_result.strOk THEN [lines |-> <<>>, raised |-> TypeError]
  ELSE [lines |-> <<Cat(Cat(NL, Lit("Return Value: ")),
                        IF StrLen(cell_result.repr) > RESULT_LIMIT
                        THEN Cat(Slice(cell_result.repr, RESULT_LIMIT), Rep(".", 3))
                        ELSE cell_result.repr)>>,
        raised |-> NoExc]
\* lines 171-178, the return-value line of the success body: str(cell_result)
\* cut at 500 characters, or the fallback marker when str() raises; raised is
\* the exception that leaves the try statement
stringify(cell_result) ==
  IF cell_result.isNone THEN [lines |-> <<>>, raised |-> NoExc]
  ELSE IF ~cell_result.strOk
       THEN [lines |-> <<Cat(Cat(NL, Lit("Return Value: ")), Lit("<unable to stringify>"))>>,
             raised |-> NoExc]
       ELSE [lines |-> <<Cat(Cat(NL, Lit("Return Value: ")),
                             IF StrLen(cell_result.repr) > RESULT_LIMIT
                             THEN Cat(Slice(cell_result.repr, RESULT_LIMIT), Rep(".", 3))
                             ELSE cell_result.repr)>>,
             raised |-> NoExc]

_send_success_notification(self, cell_id, t0, t1, output, cell_result, post_ok) ==
  LET r == stringify(cell_result)
      contents == <<Lit("The cell is done."),
                    Cat(Lit("Cell: "), cell_id),
                    Cat(Lit("Starting date: "), strftime(t0)),
                    Cat(Lit("End date: "), strftime(t1)),
                    Cat(Lit("Execution duration: "), timedelta_str(t1 - t0))>>
                  \o success_output_block(output)
                  \o r.lines
                  \o mention_lines(self)
  IN IF r.raised # NoExc
     THEN Aborted("success", self, r.raised)
     ELSE Attempt("success", self, ":tada:", contents, post_ok)

\* output[:1000] + "..." if len(output) > 1000 else output
error_preview(output) ==
  IF StrLen(output) > ERROR_OUTPUT_LIMIT
  THEN Cat(Slice(output, ERROR_OUTPUT_LIMIT), Rep(".", 3))
  ELSE output

\* the output block of the error body, absent for an empty output
error_output_block(output) ==
  IF output # Empty
  THEN <<Cat(Cat(Cat(Cat(Cat(Cat(Cat(Lit("Output before error:"), NL), Fence), NL),
             error_preview(output)), NL), Fence), NL)>>
  ELSE <<>>

\* exception is the argument, handled the exception being handled at the call;
\* the emoji that closes the first line is spelled out
_send_error_notification(self, cell_id, t0, t1, exception, handled, output, post_ok) ==
  LET contents == <<Lit("The cell has crashed (skull and crossbones)"),
                    Cat(Lit("Cell: "), cell_id),
                    Cat(Lit("Starting date: "), strftime(t0)),
                    Cat(Lit("Crash date: "), strftime(t1)),
                    Cat(Cat(Lit("Crashed execution duration: "), timedelta_str(t1 - t0)), NL)>>
                  \o error_output_block(output)
                  \o <<Lit("Here's the error:"),
                       Cat(exc_str(exception), NL),
                       Lit("Traceback:"),
                       Cat(Cat(Cat(Cat(Fence, NL), format_exc(handled)), NL), Fence)>>
                  \o mention_lines(self)
  IN Attempt("error", self, ":skull_and_crossbones:", contents, post_ok)

\* ------------------------------------------------------------- the inputs
Urls == {"https://hooks.example/1", "https://hooks.example/2"}
Channels == {"#ml-runs", "#ops"}
MentionLists == {<<>>, <<"<@U1>", "<@U2>">>}
Notifiers == [webhook_url : Urls, channel : Channels, user_mentions : MentionLists]
\* _instance = None
NoneNotifier == [webhook_url |-> "None", channel |-> "None", user_mentions |-> <<>>]

Times == 0..MaxTime

\* k times "a", then m times "b"
AB(k, m) == Cat(Rep("a", k), Rep("b", m))
Around(limit) == (limit - MaxDelta)..(limit + MaxDelta)

\* python values: None, a value whose str() is repr, a value whose str() raises
NoneValue == [isNone |-> TRUE, strOk |-> TRUE, repr |-> Lit("None")]
Value(t) == [isNone |-> FALSE, strOk |-> TRUE, repr |-> t]
Unprintable == [isNone |-> FALSE, strOk |-> FALSE, repr |-> Empty]

\* cells: the source text, what running it prints, and its result or exception
CellSources == {Lit("train_model()")}
CellOutputs == {Empty, Cat(Lit("loss=0.1"), NL)}
Cells ==
  [src : CellSources, out : CellOutputs, res : {NoneValue, Value(Lit("0.1"))}, exc : {NoExc}]
  \cup [src : CellSources, out : CellOutputs, res : {NoneValue},
        exc : {ZeroDivisionError}]
NoCell == [src |-> Empty, out |-> Empty, res |-> NoneValue, exc |-> NoExc]

\* arguments of the direct sender calls
CellIds == {Lit("train_model()")}
\* printed texts, with and without a closing newline
Outputs ==
  {Cat(AB(k, m), Rep("\n", nl)) :
     k \in {0, 1} \cup Around(ERROR_OUTPUT_LIMIT) \cup Around(SUCCESS_OUTPUT_LIMIT),
     m \in 0..MaxTail, nl \in 0..1}
Values ==
  {NoneValue, Unprintable}
  \cup {Value(AB(k, m)) : k \in {0, 1} \cup Around(RESULT_LIMIT), m \in 0..MaxTail}
Exceptions == {ZeroDivisionError, ValueError}

\* ------------------------------------------------- the notifier singleton
\* (new_instance_keep_first sets the attribute only while it is None)
new_instance_keep_first(old, self) == IF old = NoneNotifier THEN self ELSE old
\* JupyterSlackNotifier._instance = self
new_instance(old, self) == self

\* JupyterSlackNotifier.__init__, between cells or from the running cell;
\* the magic it registers reads the class attribute, whichever closure runs
JupyterSlackNotifier(webhook_url, channel, user_mentions) ==
  LET self == [webhook_url |-> webhook_url, channel |-> channel,
               user_mentions |-> user_mentions]
  IN /\ pc \in {"idle", "running", "done"}
     /\ instance' = new_instance(instance, self)
     /\ lastConstructed' = self
     /\ replaced' = (replaced \/ lastConstructed \notin {NoneNotifier, self})
     /\ UNCHANGED <<pc, notifier, activeAtStart, cell, start_time, stdout, old_stdout,
                    captured_output, console, posts, unit, ex, raised, returned,
                    prev, call>>

\* ----------------------------------------------------- the notify_slack magic
\* print(text) while sys.stdout is target: only the original stream shows it
Written(target, tag, text) ==
  IF target = "orig" /\ text # Empty THEN <<[tag |-> tag, text |-> text]>> ELSE <<>>

\* the free name cell_id of notify_slack: no parameter, local, module global
\* or builtin binds it, so evaluating it raises
cell_id_lookup == NameError

\* whether every POST of this call went through
AllDelivered == \A i \in 1..Len(posts) : posts[i].delivered

\* the finished call, as the next call remembers it
Summary == [cell |-> cell, unit |-> unit, raised |-> raised, returned |-> returned]

\* lines 73-90: the start notification, then the redirection of sys.stdout
notify_slack_enter(c, t, post_ok) ==
  LET a == _send_start_notification(instance, c.src, t, post_ok)
  IN /\ pc \in {"idle", "done"}
     /\ instance # NoneNotifier
     /\ notifier' = instance
     /\ activeAtStart' = lastConstructed
     /\ cell' = c
     /\ start_time' = t
     /\ posts' = <<a>>
     /\ console' = Written(stdout, "warning", a.warning)
     /\ prev' = IF pc = "done" /\ AllDelivered THEN <<Summary>> ELSE <<>>
     /\ unit' = "notrun"
     /\ ex' = NoExc
     /\ returned' = NoneValue
     /\ captured_output' = Empty
     /\ IF a.raised # NoExc
        THEN /\ pc' = "done"
             /\ raised' = a.raised
             /\ UNCHANGED <<stdout, old_stdout>>
        ELSE /\ pc' = "running"
             /\ raised' = NoExc
             /\ old_stdout' = (IF stdout = "orig" THEN "orig" ELSE "stale")
             /\ stdout' = "captured"
     /\ UNCHANGED <<instance, lastConstructed, replaced, call>>

\* line 94 has three ways on: run_cell returns (line 97 follows), it raises an
\* Exception (caught at line 115), or a BaseException that is no Exception
\* passes the except clause and leaves notify_slack.

\* line 94: run_cell returns; the cell's prints are in the StringIO
run_cell_returns ==
  /\ pc = "running"
  /\ cell.exc = NoExc
  /\ captured_output' = cell.out
  /\ unit' = "returned"
  /\ pc' = "returned"
  /\ UNCHANGED <<instance, lastConstructed, notifier, activeAtStart, replaced, cell, start_time,
                 stdout, old_stdout, console, posts, ex, raised, returned, prev, call>>

\* line 94: run_cell raises the cell's exception, caught at line 115
run_cell_raises ==
  /\ pc = "running"
  /\ cell.exc # NoExc
  /\ captured_output' = cell.out
  /\ unit' = "raised"
  /\ ex' = cell.exc
  /\ pc' = "except"
  /\ UNCHANGED <<instance, lastConstructed, notifier, activeAtStart, replaced, cell, start_time,
                 stdout, old_stdout, console, posts, raised, returned, prev, call>>

\* line 94: a KeyboardInterrupt, which except Exception does not catch, ends
\* the run and leaves notify_slack
run_cell_interrupted ==
  /\ pc = "running"
  /\ captured_output' = cell.out
  /\ unit' = "interrupted"
  /\ raised' = KeyboardInterrupt
  /\ pc' = "done"
  /\ UNCHANGED <<instance, lastConstructed, notifier, activeAtStart, replaced, cell, start_time,
                 stdout, old_stdout, console, posts, ex, returned, prev, call>>

\* lines 97-113: restore stdout, replay the output, then the arguments of
\* _send_success_notification are evaluated: cell_id raises inside the try
notify_slack_returned ==
  /\ pc = "returned"
  /\ stdout' = old_stdout
  /\ console' = console \o Written(old_stdout, "output", captured_output)
  /\ ex' = cell_id_lookup
  /\ pc' = "except"
  /\ UNCHANGED <<instance, lastConstructed, notifier, activeAtStart, replaced, cell, start_time,
                 old_stdout, captured_output, posts, unit, raised, returned, prev, call>>

\* lines 115-128: restore stdout, replay the output, then the arguments of
\* _send_error_notification are evaluated: cell_id raises out of the handler
notify_slack_except ==
  /\ pc = "except"
  /\ stdout' = old_stdout
  /\ console' = console \o Written(old_stdout, "output", captured_output)
  /\ raised' = cell_id_lookup
  /\ pc' = "done"
  /\ UNCHANGED <<instance, lastConstructed, notifier, activeAtStart, replaced, cell, start_time,
                 old_stdout, captured_output, posts, unit, ex, returned, prev, call>>

Init ==
  /\ instance = NoneNotifier
  /\ lastConstructed = NoneNotifier
  /\ pc = "idle"
  /\ notifier = NoneNotifier
  /\ activeAtStart = NoneNotifier
  /\ replaced = FALSE
  /\ cell = NoCell
  /\ start_time = 0
  /\ stdout = "orig"
  /\ old_stdout = "orig"
  /\ captured_output = Empty
  /\ console = <<>>
  /\ posts = <<>>
  /\ unit = "notrun"
  /\ ex = NoExc
  /\ raised = NoExc
  /\ returned = NoneValue
  /\ prev = <<>>
  /\ call = <<>>

Construct == \E u \in Urls, ch \in Channels, m \in MentionLists : JupyterSlackNotifier(u, ch, m)
Enter == \E c \in Cells, t \in Times, post_ok \in BOOLEAN : notify_slack_enter(c, t, post_ok)

Next ==
  \/ Construct
  \/ Enter
  \/ run_cell_returns
  \/ run_cell_raises
  \/ run_cell_interrupted
  \/ notify_slack_returned
  \/ notify_slack_except

Spec == Init /\ [][Next]_vars

\* ------------------------------------------------ the senders called directly
\* a constructed notifier, no notify_slack call under way
FmtInit ==
  /\ instance \in Notifiers
  /\ lastConstructed = instance
  /\ pc = "idle"
  /\ notifier = NoneNotifier
  /\ activeAtStart = NoneNotifier
  /\ replaced = FALSE
  /\ cell = NoCell
  /\ start_time = 0
  /\ stdout = "orig"
  /\ old_stdout = "orig"
  /\ captured_output = Empty
  /\ console = <<>>
  /\ posts = <<>>
  /\ unit = "notrun"
  /\ ex = NoExc
  /\ raised = NoExc
  /\ returned = NoneValue
  /\ prev = <<>>
  /\ call = <<>>

Args(kind, cell_id, t0, t1, output, cell_result, exception, handled, post_ok) ==
  [kind |-> kind, cell_id |-> cell_id, t0 |-> t0, t1 |-> t1, output |-> output,
   cell_result |-> cell_result, exception |-> exception, handled |-> handled,
   post_ok |-> post_ok]

\* the sender's result and the warning it printed
Sent(a) ==
  /\ posts' = <<a>>
  /\ console' = Written(stdout, "warning", a.warning)
  /\ UNCHANGED <<instance, lastConstructed, pc, notifier, activeAtStart, replaced, cell,
                 start_time, stdout, old_stdout, captured_output, unit, ex, raised,
                 returned, prev>>

call_send_start(cell_id, t0, post_ok) ==
  /\ call' = <<Args("start", cell_id, t0, t0, Empty, NoneValue, NoExc, NoExc, post_ok)>>
  /\ Sent(_send_start_notification(instance, cell_id, t0, post_ok))

call_send_success(cell_id, t0, t1, output, cell_result, post_ok) ==
  /\ call' = <<Args("success", cell_id, t0, t1, output, cell_result, NoExc, NoExc, post_ok)>>
  /\ Sent(_send_success_notification(instance, cell_id, t0, t1, output, cell_result, post_ok))

call_send_error(cell_id, t0, t1, exception, handled, output, post_ok) ==
  /\ call' = <<Args("error", cell_id, t0, t1, output, NoneValue, exception, handled, post_ok)>>
  /\ Sent(_send_error_notification(instance, cell_id, t0, t1, exception, handled, output, post_ok))

\* the senders keep no state of their own, so the one call made from each
\* initial state stands for any
SendStart ==
  /\ call = <<>>
  /\ \E cid \in CellIds, t0 \in Times, post_ok \in BOOLEAN : call_send_start(cid, t0, post_ok)
SendSuccess ==
  /\ call = <<>>
  /\ \E cid \in CellIds, t0 \in Times, t1 \in Times, o \in Outputs, v \in Values, post_ok \in BOOLEAN :
    t0 <= t1 /\ call_send_success(cid, t0, t1, o, v, post_ok)
SendError ==
  /\ call = <<>>
  /\ \E cid \in CellIds, t0 \in Times, t1 \in Times, e \in Exceptions, h \in {NoExc} \cup Exceptions,
        o \in Outputs, post_ok \in BOOLEAN :
    t0 <= t1 /\ (h = NoExc \/ h = e) /\ call_send_error(cid, t0, t1, e, h, o, post_ok)

FmtNext == SendStart \/ SendSuccess \/ SendError

FmtSpec == FmtInit /\ [][FmtNext]_vars

\* ------------------------------------------------------------- properties
\* the kinds of the sender calls of this notify_slack call, in order
Kinds == [i \in 1..Len(posts) |-> posts[i].kind]

\* the exception the run of the cell itself ended with
UnitException ==
  IF unit = "raised" THEN cell.exc
  ELSE IF unit = "interrupted" THEN KeyboardInterrupt
  ELSE NoExc

\* the replays of the cell's output on the original stdout
Replays == SelectSeq(console, LAMBDA w : w.tag = "output")

\* the positions of the newlines of a text, and its ends
Breaks(text) == {0, Len(text) + 1} \cup {i \in 1..Len(text) : text[i].c = "\n"}

\* the text after the last newline
LastLine(text) ==
  LET last == CHOOSE i \in Breaks(text) \ {Len(text) + 1} :
                \A j \in Breaks(text) \ {Len(text) + 1} : j <= i
  IN SubSeq(text, last + 1, Len(text))

\* the non-empty lines of a text
LinesOf(text) ==
  {SubSeq(text, p[1] + 1, p[2] - 1) :
     p \in {q \in Breaks(text) \X Breaks(text) :
              q[2] > q[1] + 1 /\ \A b \in Breaks(text) : ~(q[1] < b /\ b < q[2])}}

\* the tokens in order, one space between neighbours
MentionLine(m) ==
  [i \in 1..(2 * Len(m) - 1) |->
     IF i % 2 = 1 THEN [c |-> m[(i + 1) \div 2], n |-> 1] ELSE [c |-> " ", n |-> 1]]

\* part occurs in text as a contiguous piece
Contains(text, part) ==
  \E i \in 1..(Len(text) - Len(part) + 1) : SubSeq(text, i, i + Len(part) - 1) = part

\* a text mentions the phrase
Mentions(text, phrase) == \E i \in 1..Len(text) : text[i].c = phrase

\* the whole text up to limit characters, else its first limit characters
\* and the continuation marker
Truncated(o, limit) ==
  IF StrLen(o) <= limit THEN o ELSE Slice(o, limit) \o <<[c |-> ".", n |-> 3]>>

\* C1: a notify_slack call whose cell returns normally attempts exactly a
\* start and then a success notification, no error notification, and hands
\* the cell's return value back to its caller.
C1_NormalReturn ==
  (pc = "done" /\ unit = "returned") =>
     /\ Kinds = <<"start", "success">>
     /\ raised = NoExc
     /\ returned = cell.res

\* C2: a notify_slack call whose cell raises attempts exactly a start and
\* then an error notification, no success notification, and re-raises the
\* cell's exception to its caller after the error notification.
C2_RaisingUnit ==
  (pc = "done" /\ unit = "raised") =>
     /\ Kinds = <<"start", "error">>
     /\ raised = cell.exc

\* C3: a failed delivery never raises out of a sender or out of
\* notify_slack, the cell still runs after a failed start notification, and
\* the call ends for its caller as the call on the same cell ended whose
\* deliveries all went through.
C3_DeliveryFailureHarmless ==
  /\ \A i \in 1..Len(posts) : posts[i].raised = NoExc
  /\ pc = "done" => raised # ConnectionError
  /\ (pc = "done" /\ ~AllDelivered) => unit # "notrun"
  /\ (pc = "done" /\ prev # <<>> /\ prev[1].cell = cell /\ prev[1].unit = unit) =>
        (raised = prev[1].raised /\ returned = prev[1].returned)

\* a call with a failed start delivery ended after a call on the same cell
\* whose delivery went through
C3_Witness ==
  /\ pc = "done"
  /\ ~AllDelivered
  /\ unit = "returned"
  /\ prev # <<>>
  /\ prev[1].cell = cell
  /\ prev[1].unit = unit

\* C4: an exception reaches the caller of notify_slack only if the run of
\* the cell raised it: a cell that returns normally makes notify_slack
\* return normally, and otherwise the caller sees the cell's exception.
C4_OnlyUnitExceptions ==
  pc = "done" =>
     /\ unit = "returned" => raised = NoExc
     /\ raised \in {NoExc, UnitException}

\* C5: when the call is over, the text the cell printed has been replayed
\* to the original stdout exactly once, whether the cell returned or raised.
C5_ReplayedOnce ==
  (pc = "done" /\ unit \in {"returned", "raised"} /\ old_stdout = "orig") =>
     Replays = Written("orig", "output", cell.out)

\* C6: the active notifier is the one constructed last, and every
\* notification of a notify_slack call goes to the endpoint, channel and
\* mentions of the notifier that was the last constructed when the call began.
C6_LatestConfiguration ==
  /\ instance = lastConstructed
  /\ \A i \in 1..Len(posts) :
        /\ posts[i].url = activeAtStart.webhook_url
        /\ posts[i].dump.channel = activeAtStart.channel
        /\ IF activeAtStart.user_mentions # <<>>
           THEN LastLine(posts[i].dump.text) = MentionLine(activeAtStart.user_mentions)
           ELSE \A m \in MentionLists \ {<<>>} :
                   MentionLine(m) \notin LinesOf(posts[i].dump.text)

\* a call begun after one notifier replaced another has sent its start
\* notification
C6_Witness ==
  /\ replaced
  /\ pc = "running"
  /\ instance = notifier
  /\ posts # <<>>

\* C7: the body a sender builds ends, for a non-empty mention list, with a
\* line that is the tokens in order with one space between them, and is the
\* body built for no mentions plus that line; for an empty list no line of
\* the body is a mention line.
C7_MentionLine ==
  call # <<>> =>
    LET body == posts[1].dump.text
        m == instance.user_mentions
        bare == [instance EXCEPT !.user_mentions = <<>>]
        a == call[1]
        without ==
          IF a.kind = "start"
          THEN _send_start_notification(bare, a.cell_id, a.t0, a.post_ok)
          ELSE IF a.kind = "success"
          THEN _send_success_notification(bare, a.cell_id, a.t0, a.t1, a.output,
                                          a.cell_result, a.post_ok)
          ELSE _send_error_notification(bare, a.cell_id, a.t0, a.t1, a.exception,
                                        a.handled, a.output, a.post_ok)
    IN IF m # <<>>
       THEN /\ LastLine(body) = MentionLine(m)
            /\ body = without.dump.text \o NL \o MentionLine(m)
       ELSE \A other \in MentionLists \ {<<>>} : MentionLine(other) \notin LinesOf(body)

\* an error body built for two mention tokens
C7_Witness ==
  /\ call # <<>>
  /\ call[1].kind = "error"
  /\ Len(instance.user_mentions) = 2
  /\ LastLine(posts[1].dump.text) = MentionLine(instance.user_mentions)

\* the output block under its heading: the text, cut at limit, between fences
Block(heading, o, limit) ==
  Cat(Cat(Lit(heading) \o NL \o Fence \o NL, Truncated(o, limit)), NL \o Fence)

\* C8: the success body carries the captured output whole up to 2000
\* characters and else its first 2000 characters and "...", the error body
\* does the same with 1000, and an empty output adds no output block.
C8_OutputPreview ==
  call # <<>> =>
    LET body == posts[1].dump.text
        o == call[1].output
    IN /\ call[1].kind = "success" =>
            IF o # Empty
            THEN Contains(body, Block("Cell Output:", o, 2000))
            ELSE ~Mentions(body, "Cell Output:")
       /\ call[1].kind = "error" =>
            IF o # Empty
            THEN Contains(body, Block("Output before error:", o, 1000))
            ELSE ~Mentions(body, "Output before error:")

\* a success body for an output of more than 2000 characters, cut
C8_Witness ==
  /\ call # <<>>
  /\ call[1].kind = "success"
  /\ StrLen(call[1].output) > 2000
  /\ Contains(posts[1].dump.text, Slice(call[1].output, 2000) \o <<[c |-> ".", n |-> 3]>> \o NL)

\* C9: the success body for a return value other than None carries its
\* str() whole up to 500 characters and else the first 500 characters and
\* "...", as one line after "Return Value: ", carries "<unable to stringify>"
\* there when str() raises, and no exception leaves the sender.
C9_ReturnValuePreview ==
  (call # <<>> /\ call[1].kind = "success") =>
    LET body == posts[1].dump.text
        v == call[1].cell_result
    IN /\ posts[1].raised = NoExc
       /\ IF v.isNone THEN ~Mentions(body, "Return Value: ")
          ELSE IF v.strOk
          THEN Lit("Return Value: ") \o Truncated(v.repr, 500) \in LinesOf(body)
          ELSE Lit("Return Value: ") \o Lit("<unable to stringify>") \in LinesOf(body)

\* a success body for a value whose str() raises
C9_Witness ==
  /\ call # <<>>
  /\ call[1].kind = "success"
  /\ ~call[1].cell_result.strOk
  /\ Mentions(posts[1].dump.text, "<unable to stringify>")

\* C10: when a notify_slack call is over, however it ended, sys.stdout is
\* the stream it was before the call redirected it.
C10_StdoutRestored ==
  pc = "done" => stdout = old_stdout

====
